---- MODULE Spec2Model ----
(***************************************************************************)
(* A model of the COFF reader / PE header writer in src/src/main.rs.       *)
(*                                                                         *)
(* Bytes are naturals in 0..255 and buffers are sequences of bytes.        *)
(* A 32-bit or 64-bit quantity is a record [hi, lo] of base-2^16 digits    *)
(* (value = hi * 2^16 + lo, lo < 2^16), so that the whole u32 range and    *)
(* the exact, un-wrapped sums are representable.                           *)
(***************************************************************************)
EXTENDS Integers, Sequences, FiniteSets, TLC

\* ------------------------------------------------------------------------
\* Bounds of the model
\* ------------------------------------------------------------------------

\* Largest number of symbol-table slots present in an input file.
MaxSymbols == 3

\* Largest number of section headers present in an input file.
MaxSections == 1

\* Length of the (opaque) MS-DOS stub placed in front of the image.
StubLen == 2

\* Longest name handed to encode_section_header_name.
MaxNameLen == 9

\* ------------------------------------------------------------------------
\* Wide naturals: [hi, lo] with value hi * 2^16 + lo
\* ------------------------------------------------------------------------

Limb == 2^16

WNorm(h, l) == [hi |-> h + (l \div Limb), lo |-> l % Limb]

WOf(n) == WNorm(0, n)

WAdd(a, b) == WNorm(a.hi + b.hi, a.lo + b.lo)

WMul(a, k) == WNorm(a.hi * k, a.lo * k)

WLt(a, b) == a.hi < b.hi \/ (a.hi = b.hi /\ a.lo < b.lo)

\* A value fits a u32 when its high digit is below 2^16.
FitsU32(a) == a.hi < Limb

\* Truncation to 32 bits (what a wrapping u32 operation keeps).
Wrap32(a) == [hi |-> a.hi % Limb, lo |-> a.lo]

\* ------------------------------------------------------------------------
\* Little-endian integer codecs (binrw, #[br(little)] / #[bw(little)])
\* ------------------------------------------------------------------------

Byte == 0..255

RECURSIVE LeBytes(_, _)
\* The `width` little-endian bytes of the natural n.
LeBytes(n, width) ==
    IF width = 0 THEN <<>>
    ELSE <<n % 256>> \o LeBytes(n \div 256, width - 1)

RECURSIVE LeNat(_)
\* The natural a little-endian byte sequence denotes (short sequences only).
LeNat(bs) ==
    IF bs = <<>> THEN 0
    ELSE bs[1] + 256 * LeNat(Tail(bs))

write_u8(v) == LeBytes(v, 1)

write_u16(v) == LeBytes(v, 2)

write_u32(w) == LeBytes(w.lo, 2) \o LeBytes(w.hi, 2)

write_u64(w) == LeBytes(w.lo, 2) \o LeBytes(w.hi % Limb, 2)
                \o LeBytes(w.hi \div Limb, 4)

read_u16(bs) == LeNat(SubSeq(bs, 1, 2))

\* u32::from_le_bytes / binrw's u32 read: the last byte is the most
\* significant one.
read_u32(bs) == [hi |-> LeNat(SubSeq(bs, 3, 4)), lo |-> LeNat(SubSeq(bs, 1, 2))]

\* ------------------------------------------------------------------------
\* Text: a String is modelled by its UTF-8 bytes
\* ------------------------------------------------------------------------

IsCont(b) == b \in 128..191

RECURSIVE Utf8Valid(_)
\* std::str::from_utf8 accepts exactly the well-formed UTF-8 sequences.
Utf8Valid(bs) ==
    IF bs = <<>> THEN TRUE
    ELSE LET b == bs[1]
             n == Len(bs)
             rest(k) == SubSeq(bs, k + 1, n)
         IN  CASE b < 128 -> Utf8Valid(rest(1))
               [] b \in 194..223 ->
                    n >= 2 /\ IsCont(bs[2]) /\ Utf8Valid(rest(2))
               [] b \in 224..239 ->
                    /\ n >= 3
                    /\ bs[2] \in (IF b = 224 THEN 160..191
                                  ELSE IF b = 237 THEN 128..159 ELSE 128..191)
                    /\ IsCont(bs[3])
                    /\ Utf8Valid(rest(3))
               [] b \in 240..244 ->
                    /\ n >= 4
                    /\ bs[2] \in (IF b = 240 THEN 144..191
                                  ELSE IF b = 244 THEN 128..143 ELSE 128..191)
                    /\ IsCont(bs[3])
                    /\ IsCont(bs[4])
                    /\ Utf8Valid(rest(4))
               [] OTHER -> FALSE

Ok(v) == [ok |-> TRUE, val |-> v]

Err(e) == [ok |-> FALSE, err |-> e]

\* name.iter().position(|&d| d == 0): the 0-based index of the first zero
\* byte, or -1 for None.
position_of_zero(name) ==
    IF \E i \in 1..Len(name) : name[i] = 0
    THEN (CHOOSE i \in 1..Len(name) :
              name[i] = 0 /\ \A j \in 1..(i - 1) : name[j] # 0) - 1
    ELSE -1

\* fn parse_section_header_name(name: [u8; 8]) -> Result<String, Utf8Error>
parse_section_header_name(name) ==
    LET p     == position_of_zero(name)
        end   == IF p >= 0 THEN p ELSE 7
        slice == SubSeq(name, 1, end)
    IN  IF Utf8Valid(slice) THEN Ok(slice) ELSE Err("Utf8Error")

\* fn encode_section_header_name(name: &str) -> [u8; 8]; the slice
\* bytes[..name.len()] is out of range, and the call panics, for a name
\* longer than 8 bytes.
encode_section_header_name(name) ==
    IF Len(name) > 8 THEN Err("panic")
    ELSE Ok([i \in 1..8 |-> IF i <= Len(name) THEN name[i] ELSE 0])

\* A faulty variant: the offset taken with from_be_bytes.
repr_big_endian(bytes) ==
    IF \A i \in 1..4 : bytes[i] = 0
    THEN Ok([tag |-> "Long",
             offset |-> read_u32(<<bytes[8], bytes[7], bytes[6], bytes[5]>>)])
    ELSE LET r == parse_section_header_name(bytes)
         IN  IF r.ok THEN Ok([tag |-> "Short", name |-> r.val]) ELSE r

\* SymbolName::repr
repr(bytes) ==
    IF \A i \in 1..4 : bytes[i] = 0
    THEN Ok([tag |-> "Long", offset |-> read_u32(SubSeq(bytes, 5, 8))])
    ELSE LET r == parse_section_header_name(bytes)
         IN  IF r.ok THEN Ok([tag |-> "Short", name |-> r.val]) ELSE r

\* ------------------------------------------------------------------------
\* Characteristics (bitflags over u16): the set of the bit indices that are set
\* ------------------------------------------------------------------------

RECURSIVE BitsOf(_, _)
BitsOf(v, i) ==
    IF i = 16 THEN {}
    ELSE (IF v % 2 = 1 THEN {i} ELSE {}) \cup BitsOf(v \div 2, i + 1)

RECURSIVE SumBits(_)
SumBits(S) ==
    IF S = {} THEN 0
    ELSE LET i == CHOOSE x \in S : TRUE
         IN  2^i + SumBits(S \ {i})

\* A faulty variant: from_bits_truncate, which drops the bit without a named flag
\* (0x0040).
from_bits_truncate(val) == BitsOf(val, 0) \ {6}

\* Characteristics::from_bits_retain: every bit is kept, named or not.
from_bits_retain(val) == BitsOf(val, 0)

\* Characteristics::bits
bits(flags) == SumBits(flags)

IMAGE_FILE_EXECUTABLE_IMAGE == {1}

IMAGE_FILE_MACHINE_AMD64 == 34404

IMAGE_SUBSYSTEM_WINDOWS_CUI == 3

\* ------------------------------------------------------------------------
\* #[repr(C)] layouts and size_of
\* ------------------------------------------------------------------------

TypeSize(t) ==
    CASE t = "u8" -> 1
      [] t = "u16" -> 2
      [] t = "u32" -> 4
      [] t = "u64" -> 8
      [] t = "DataDirectory" -> 8

TypeAlign(t) ==
    CASE t = "u8" -> 1
      [] t = "u16" -> 2
      [] t = "u32" -> 4
      [] t = "u64" -> 8
      [] t = "DataDirectory" -> 4

AlignUp(off, a) == ((off + a - 1) \div a) * a

RECURSIVE EndOffset(_, _)
\* The offset just past the first k fields of a repr(C) struct.
EndOffset(fields, k) ==
    IF k = 0 THEN 0
    ELSE AlignUp(EndOffset(fields, k - 1), TypeAlign(fields[k][2]))
         + TypeSize(fields[k][2])

RECURSIVE MaxAlign(_, _)
MaxAlign(fields, k) ==
    IF k = 0 THEN 1
    ELSE LET a == TypeAlign(fields[k][2])
             m == MaxAlign(fields, k - 1)
         IN  IF a > m THEN a ELSE m

\* size_of::<T>() for a #[repr(C)] struct with the given fields.
SizeOf(fields) ==
    AlignUp(EndOffset(fields, Len(fields)), MaxAlign(fields, Len(fields)))

CoffHeaderFields ==
    << <<"machine", "u16">>, <<"number_of_sections", "u16">>,
       <<"time_date_stamp", "u32">>, <<"pointer_to_symbol_table", "u32">>,
       <<"number_of_symbols", "u32">>, <<"size_of_optional_header", "u16">>,
       <<"characteristics", "u16">> >>

OptionalHeaderFields ==
    << <<"major_linker_version", "u8">>, <<"minor_linker_version", "u8">>,
       <<"size_of_code", "u32">>, <<"size_of_initialized_data", "u32">>,
       <<"size_of_uninitialized_data", "u32">>,
       <<"address_of_entry_point", "u32">>, <<"base_of_code", "u32">>,
       <<"image_base", "u64">>,
       <<"section_alignment", "u32">>, <<"file_alignment", "u32">>,
       <<"major_operating_system_version", "u16">>,
       <<"minor_operating_system_version", "u16">>,
       <<"major_image_version", "u16">>, <<"minor_image_version", "u16">>,
       <<"major_subsystem_version", "u16">>,
       <<"minor_subsystem_version", "u16">>,
       <<"win32_version_value", "u32">>, <<"size_of_image", "u32">>,
       <<"size_of_headers", "u32">>, <<"check_sum", "u32">>,
       <<"subsystem", "u16">>, <<"dll_characteristics", "u16">>,
       <<"size_of_stack_reserve", "u64">>, <<"size_of_stack_commit", "u64">>,
       <<"size_of_heap_reserve", "u64">>, <<"sizeof_heap_commit", "u64">>,
       <<"loader_flags", "u32">>, <<"number_of_rva_and_sizes", "u32">>,
       <<"export_table", "DataDirectory">>,
       <<"import_table", "DataDirectory">>,
       <<"resource_table", "DataDirectory">>,
       <<"exception_table", "DataDirectory">>,
       <<"certificate_table", "DataDirectory">>,
       <<"base_relocation_table", "DataDirectory">>,
       <<"debug", "DataDirectory">>, <<"architecture", "DataDirectory">>,
       <<"global_ptr", "DataDirectory">>, <<"tls_table", "DataDirectory">>,
       <<"load_config_table", "DataDirectory">>,
       <<"bound_import", "DataDirectory">>, <<"iat", "DataDirectory">>,
       <<"delay_import_descriptor", "DataDirectory">>,
       <<"clr_runtime_header", "DataDirectory">>,
       <<"_reserved", "DataDirectory">> >>

\* #[bw(magic = b"\x0b\x02")]
OptionalHeaderMagic == <<11, 2>>

\* ------------------------------------------------------------------------
\* Struct codecs (the derived BinRead / BinWrite implementations)
\* ------------------------------------------------------------------------

\* CoffHeader::write: the seven fields in declaration order, little-endian.
CoffHeader_write(h) ==
    write_u16(h.machine) \o write_u16(h.number_of_sections)
    \o write_u32(h.time_date_stamp) \o write_u32(h.pointer_to_symbol_table)
    \o write_u32(h.number_of_symbols) \o write_u16(h.size_of_optional_header)
    \o write_u16(bits(h.characteristics))

\* CoffHeader::read on 20 bytes.
CoffHeader_read(bs) ==
    [machine                 |-> read_u16(SubSeq(bs, 1, 2)),
     number_of_sections      |-> read_u16(SubSeq(bs, 3, 4)),
     time_date_stamp         |-> read_u32(SubSeq(bs, 5, 8)),
     pointer_to_symbol_table |-> read_u32(SubSeq(bs, 9, 12)),
     number_of_symbols       |-> read_u32(SubSeq(bs, 13, 16)),
     size_of_optional_header |-> read_u16(SubSeq(bs, 17, 18)),
     characteristics         |-> from_bits_retain(read_u16(SubSeq(bs, 19, 20)))]

\* DataDirectory::default()
DataDirectory_default == [virtual_address |-> 0, size |-> 0]

\* The bytes one field of a struct is written as.
WriteField(type, v) ==
    IF type = "DataDirectory"
    THEN LeBytes(v.virtual_address, 4) \o LeBytes(v.size, 4)
    ELSE LeBytes(v, TypeSize(type))

RECURSIVE WriteFields(_, _, _)
WriteFields(fields, value, k) ==
    IF k = 0 THEN <<>>
    ELSE WriteFields(fields, value, k - 1)
         \o WriteField(fields[k][2], value[fields[k][1]])

\* OptionalHeader::write: the magic, then every field in declaration order.
OptionalHeader_write(value) ==
    OptionalHeaderMagic
    \o WriteFields(OptionalHeaderFields, value, Len(OptionalHeaderFields))

\* The size_of_stack_commit the output header is built with: 1 << 10.
StackCommit == 2^10

\* The size_of_stack_reserve the output header is built with: 1 << 20.
StackReserve == 2^20

\* The OptionalHeader literal of process_object.
OutputOptionalHeader ==
    [f \in {OptionalHeaderFields[i][1] : i \in 1..Len(OptionalHeaderFields)} |->
        CASE f \in {"major_linker_version", "minor_linker_version",
                    "major_operating_system_version",
                    "minor_operating_system_version",
                    "major_image_version", "minor_image_version",
                    "major_subsystem_version", "minor_subsystem_version"} -> 1
          [] f \in {"section_alignment", "file_alignment"} -> 8
          [] f = "subsystem" -> IMAGE_SUBSYSTEM_WINDOWS_CUI
          [] f = "size_of_stack_reserve" -> StackReserve
          [] f = "size_of_stack_commit" -> StackCommit
          [] f = "number_of_rva_and_sizes" -> 16
          [] f \in {"export_table", "import_table", "resource_table",
                    "exception_table", "certificate_table",
                    "base_relocation_table", "debug", "architecture",
                    "global_ptr", "tls_table", "load_config_table",
                    "bound_import", "iat", "delay_import_descriptor",
                    "clr_runtime_header", "_reserved"} -> DataDirectory_default
          [] OTHER -> 0]

\* A faulty variant: the size of the fields without the padding repr(C) inserts.
PackedSizeOfOptionalHeader ==
    Len(WriteFields(OptionalHeaderFields, OutputOptionalHeader,
                    Len(OptionalHeaderFields)))

\* size_of::<OptionalHeader>().try_into().unwrap(), the value stored in the
\* output header's size_of_optional_header (240 fits a u16).
OutputSizeOfOptionalHeader == SizeOf(OptionalHeaderFields)

\* The CoffHeader literal of process_object.
OutputCoffHeader ==
    [machine                 |-> IMAGE_FILE_MACHINE_AMD64,
     number_of_sections      |-> 0,
     time_date_stamp         |-> WOf(0),
     pointer_to_symbol_table |-> WOf(0),
     number_of_symbols       |-> WOf(0),
     size_of_optional_header |-> OutputSizeOfOptionalHeader,
     characteristics         |-> IMAGE_FILE_EXECUTABLE_IMAGE]

\* ------------------------------------------------------------------------
\* Reads through an io::Cursor over the input bytes
\* ------------------------------------------------------------------------

\* read_exact of n bytes at position cur (a u64): the bytes, or an
\* UnexpectedEof error when fewer than n remain.
ReadExact(buf, cur, n) ==
    IF cur.hi = 0 /\ cur.lo + n <= Len(buf)
    THEN Ok(SubSeq(buf, cur.lo + 1, cur.lo + n))
    ELSE Err("io")

\* SectionHeader::read at cur: the name field is read and parsed first
\* (try_map), then the remaining 32 bytes.
SectionHeader_read(buf, cur) ==
    LET nm == ReadExact(buf, cur, 8)
    IN  IF ~nm.ok THEN nm
        ELSE LET parsed == parse_section_header_name(nm.val)
                 rest   == ReadExact(buf, WAdd(cur, WOf(8)), 32)
             IN  IF ~parsed.ok THEN parsed
                 ELSE IF ~rest.ok THEN rest
                 ELSE Ok([name                   |-> parsed.val,
                          virtual_size           |-> read_u32(SubSeq(rest.val, 1, 4)),
                          virtual_address        |-> read_u32(SubSeq(rest.val, 5, 8)),
                          size_of_raw_data       |-> read_u32(SubSeq(rest.val, 9, 12)),
                          pointer_to_raw_data    |-> read_u32(SubSeq(rest.val, 13, 16)),
                          pointer_to_relocations |-> read_u32(SubSeq(rest.val, 17, 20)),
                          pointer_to_linenumbers |-> read_u32(SubSeq(rest.val, 21, 24)),
                          number_of_relocations  |-> read_u16(SubSeq(rest.val, 25, 26)),
                          number_of_linenumbers  |-> read_u16(SubSeq(rest.val, 27, 28)),
                          characteristics        |-> read_u32(SubSeq(rest.val, 29, 32))])

\* SymbolTableEntry::read at cur: 18 bytes, the name kept as raw bytes.
SymbolTableEntry_read(buf, cur) ==
    LET r == ReadExact(buf, cur, 18)
    IN  IF ~r.ok THEN r
        ELSE Ok([name                  |-> SubSeq(r.val, 1, 8),
                 value                 |-> read_u32(SubSeq(r.val, 9, 12)),
                 section_number        |-> read_u16(SubSeq(r.val, 13, 14)),
                 type                  |-> read_u16(SubSeq(r.val, 15, 16)),
                 storage_class         |-> r.val[17],
                 number_of_aux_symbols |-> r.val[18]])

\* binrw::NullString::read at cur: the bytes up to the next zero byte, and the
\* position after it; an error when the buffer ends first.
NullString_read(buf, cur) ==
    IF cur.hi = 0 /\ \E i \in (cur.lo + 1)..Len(buf) : buf[i] = 0
    THEN LET z == CHOOSE i \in (cur.lo + 1)..Len(buf) :
                      buf[i] = 0 /\ \A j \in (cur.lo + 1)..(i - 1) : buf[j] # 0
         IN  Ok([name |-> SubSeq(buf, cur.lo + 1, z - 1), next |-> WOf(z)])
    ELSE Err("io")

\* ------------------------------------------------------------------------
\* u32 arithmetic of process_object
\* ------------------------------------------------------------------------

\* a * k on u32: with overflow checks compiled in (the dev profile) an
\* overflowing operation panics, without them (the release profile) it wraps.
U32Mul(a, k, checks) ==
    LET e == WMul(a, k)
    IN  IF FitsU32(e) THEN Ok(e)
        ELSE IF checks THEN Err("panic") ELSE Ok(Wrap32(e))

\* a + b on u32, likewise.
U32Add(a, b, checks) ==
    LET e == WAdd(a, b)
    IN  IF FitsU32(e) THEN Ok(e)
        ELSE IF checks THEN Err("panic") ELSE Ok(Wrap32(e))

\* header.pointer_to_symbol_table + header.number_of_symbols * 18
StringTableStart(h, checks) ==
    LET m == U32Mul(h.number_of_symbols, 18, checks)
    IN  IF ~m.ok THEN m
        ELSE U32Add(h.pointer_to_symbol_table, m.val, checks)

\* string_table_start + offset
LongNamePosition(start, offset, checks) == U32Add(start, offset, checks)

\* ------------------------------------------------------------------------
\* Input files
\* ------------------------------------------------------------------------

\* The embedded stub is an opaque blob; only its length matters here.
MSDOS_STUB == [i \in 1..StubLen |-> IF i = 1 THEN 77 ELSE 90]

U32Max == [hi |-> Limb - 1, lo |-> Limb - 1]

\* 238609295 * 18 = 2^32 + 14: the smallest symbol count whose table size
\* does not fit a u32.
HugeCount == [hi |-> 3640, lo |-> 58255]

\* An 18-byte symbol-table slot with the given name field and aux count.
Slot(name, aux) ==
    name \o write_u32(WOf(0)) \o write_u16(1) \o write_u16(32)
         \o write_u8(2) \o write_u8(aux)

NameMain == <<109, 97, 105, 110, 0, 0, 0, 0>>

\* Long(0): the first byte of the string table.
NameLong0 == <<0, 0, 0, 0, 0, 0, 0, 0>>

\* Long(1024): beyond the end of every input file.
NameLongFar == <<0, 0, 0, 0, 0, 4, 0, 0>>

\* Long(2^32 - 16): string_table_start + offset exceeds a u32.
NameLongWrap == <<0, 0, 0, 0, 240, 255, 255, 255>>

\* Not UTF-8.
NameInvalid == <<255, 97, 0, 0, 0, 0, 0, 0>>

SymbolSlots ==
    { Slot(NameMain, 0), Slot(NameMain, 2), Slot(NameLong0, 1),
      Slot(NameLongFar, 2), Slot(NameLongWrap, 0), Slot(NameInvalid, 1) }

SymbolTablesUpTo(n) == UNION { [1..k -> SymbolSlots] : k \in 0..n }

\* "ab\0", and a string that is not UTF-8.
StringTables == { <<97, 98, 0>>, <<255, 0>> }

RECURSIVE Flatten(_)
Flatten(ss) == IF ss = <<>> THEN <<>> ELSE Head(ss) \o Flatten(Tail(ss))

\* A 40-byte section header named ".text".
TextSection ==
    <<46, 116, 101, 120, 116, 0, 0, 0>>
    \o write_u32(WOf(0)) \o write_u32(WOf(0)) \o write_u32(WOf(16))
    \o write_u32(WOf(60)) \o write_u32(WOf(0)) \o write_u32(WOf(0))
    \o write_u16(0) \o write_u16(0)
    \o write_u32([hi |-> 24656, lo |-> 32])

InputFile(machine, opt, nsec, symptr, nsyms, table, strtab) ==
    CoffHeader_write([machine                 |-> machine,
                      number_of_sections      |-> nsec,
                      time_date_stamp         |-> WOf(0),
                      pointer_to_symbol_table |->
                          IF symptr = "real" THEN WOf(20 + 40 * nsec)
                          ELSE U32Max,
                      number_of_symbols       |->
                          CASE nsyms = "real" -> WOf(Len(table))
                            [] nsyms = "more" -> WOf(Len(table) + 1)
                            [] nsyms = "huge" -> HugeCount,
                      size_of_optional_header |-> opt,
                      characteristics         |-> from_bits_retain(4)])
    \o Flatten([i \in 1..nsec |-> TextSection])
    \o Flatten(table) \o strtab

\* How the header's symbol-table pointer and symbol count relate to the
\* file: the pointer is the table's real offset or 2^32 - 1, the count is
\* the real one, one more, or HugeCount.
HeaderShapes ==
    { <<"real", "real">>, <<"real", "more">>, <<"real", "huge">>,
      <<"max", "real">> }

\* Object files for x86-64 without an optional header.
AcceptedFiles ==
    { InputFile(IMAGE_FILE_MACHINE_AMD64, 0, nsec, shape[1], shape[2],
                table, strtab) :
        nsec \in 0..MaxSections,
        shape \in HeaderShapes,
        table \in SymbolTablesUpTo(MaxSymbols),
        strtab \in StringTables }

\* Files of another machine (0x014c) or with an optional header; they are
\* rejected before the tables are looked at, so short tables suffice.
RejectedFiles ==
    { InputFile(class[1], class[2], nsec, shape[1], shape[2], table, strtab) :
        class \in { <<332, 0>>, <<IMAGE_FILE_MACHINE_AMD64, 240>>,
                    <<332, 240>> },
        nsec \in 0..MaxSections,
        shape \in HeaderShapes,
        table \in SymbolTablesUpTo(1),
        strtab \in StringTables }

\* One more file is too short to hold a header.
InputFiles == AcceptedFiles \cup RejectedFiles \cup { <<100, 134, 0>> }

\* ------------------------------------------------------------------------
\* State
\* ------------------------------------------------------------------------

VARIABLES
    file,               \* std::fs::read(path): the input bytes
    overflow_checks,    \* whether the build panics on integer overflow
    pc,                 \* the position in process_object
    header,             \* the decoded CoffHeader
    string_table_start, \* the u32 computed from the header
    outfile_buf,        \* the output image being assembled
    cursor,             \* position of the io::Cursor over the input (u64)
    sec_i,              \* iterations of the section loop completed
    sym_i,              \* iterations of the symbol loop completed
    remaining_aux,      \* auxiliary slots still to skip
    sym,                \* the SymbolTableEntry read in this iteration
    pos,                \* cursor position after the entry
    name,               \* the resolved name of the symbol
    out_exe,            \* the file out.exe
    err,                \* the error process_object returned
    trace,              \* the diagnostic stream, one tag per record
    arg,                \* codec calls: the argument
    ret,                \* codec calls: the value returned
    op                  \* codec calls: the last function applied

procVars ==
    <<file, overflow_checks, pc, header, string_table_start, outfile_buf,
      cursor, sec_i, sym_i, remaining_aux, sym, pos, name, out_exe, err, trace>>

codecVars == <<arg, ret, op>>

vars == <<procVars, codecVars>>

NoHeader == CoffHeader_read([i \in 1..20 |-> 0])

NoSymbol == [name |-> NameLong0, value |-> WOf(0), section_number |-> 0,
             type |-> 0, storage_class |-> 0, number_of_aux_symbols |-> 0]

NoArg == [kind |-> "none", val |-> <<>>]

CodecIdle ==
    /\ arg = NoArg
    /\ ret = Err("none")
    /\ op = "idle"

ProcLocals ==
    /\ header = NoHeader
    /\ string_table_start = WOf(0)
    /\ outfile_buf = <<>>
    /\ cursor = WOf(0)
    /\ sec_i = 0
    /\ sym_i = 0
    /\ remaining_aux = 0
    /\ sym = NoSymbol
    /\ pos = WOf(0)
    /\ name = <<>>
    /\ out_exe = [written |-> FALSE, data |-> <<>>]
    /\ err = "none"
    /\ trace = <<>>

Init ==
    /\ file \in InputFiles
    /\ overflow_checks \in BOOLEAN
    /\ pc = "read_header"
    /\ ProcLocals
    /\ CodecIdle

\* ------------------------------------------------------------------------
\* process_object, one action per step
\* ------------------------------------------------------------------------

\* `?` / bail!: process_object returns the error.
Fail(e) ==
    /\ err' = e
    /\ pc' = "failed"

\* let header = CoffHeader::read(&mut io::Cursor::new(&file))?; dbg!(&header);
ReadHeader ==
    /\ pc = "read_header"
    /\ LET r == ReadExact(file, WOf(0), 20)
       IN  IF r.ok
           THEN /\ header' = CoffHeader_read(r.val)
                /\ trace' = Append(trace, "header")
                /\ pc' = "string_table"
                /\ err' = err
           ELSE /\ Fail(r.err)
                /\ UNCHANGED <<header, trace>>
    /\ UNCHANGED <<file, overflow_checks, string_table_start, outfile_buf,
                   cursor, sec_i, sym_i, remaining_aux, sym, pos, name,
                   out_exe, codecVars>>

\* let string_table_start = ...;
ComputeStringTableStart ==
    /\ pc = "string_table"
    /\ LET r == StringTableStart(header, overflow_checks)
       IN  IF r.ok
           THEN /\ string_table_start' = r.val
                /\ pc' = "check_machine"
           ELSE /\ pc' = "panicked"
                /\ UNCHANGED string_table_start
    /\ UNCHANGED <<file, overflow_checks, header, outfile_buf, cursor, sec_i,
                   sym_i, remaining_aux, sym, pos, name, out_exe, err, trace,
                   codecVars>>

\* if header.machine != IMAGE_FILE_MACHINE_AMD64 { bail!(...) }
CheckMachine ==
    /\ pc = "check_machine"
    /\ IF header.machine # IMAGE_FILE_MACHINE_AMD64
       THEN Fail("object file is not x86-64")
       ELSE pc' = "check_optional_header" /\ err' = err
    /\ UNCHANGED <<file, overflow_checks, header, string_table_start,
                   outfile_buf, cursor, sec_i, sym_i, remaining_aux, sym, pos,
                   name, out_exe, trace, codecVars>>

\* if header.size_of_optional_header > 0 { bail!(...) }
CheckOptionalHeader ==
    /\ pc = "check_optional_header"
    /\ IF header.size_of_optional_header > 0
       THEN Fail("COFF object has optional header")
       ELSE pc' = "write_stub" /\ err' = err
    /\ UNCHANGED <<file, overflow_checks, header, string_table_start,
                   outfile_buf, cursor, sec_i, sym_i, remaining_aux, sym, pos,
                   name, out_exe, trace, codecVars>>

\* outfile.write_all(MSDOS_STUB)?;
WriteStub ==
    /\ pc = "write_stub"
    /\ outfile_buf' = outfile_buf \o MSDOS_STUB
    /\ pc' = "write_coff_header"
    /\ UNCHANGED <<file, overflow_checks, header, string_table_start, cursor,
                   sec_i, sym_i, remaining_aux, sym, pos, name, out_exe, err,
                   trace, codecVars>>

\* CoffHeader { ... }.write(outfile)?;
WriteCoffHeader ==
    /\ pc = "write_coff_header"
    /\ outfile_buf' = outfile_buf \o CoffHeader_write(OutputCoffHeader)
    /\ pc' = "write_optional_header"
    /\ UNCHANGED <<file, overflow_checks, header, string_table_start, cursor,
                   sec_i, sym_i, remaining_aux, sym, pos, name, out_exe, err,
                   trace, codecVars>>

\* OptionalHeader { ... }.write(outfile)?;
WriteOptionalHeader ==
    /\ pc = "write_optional_header"
    /\ outfile_buf' = outfile_buf \o OptionalHeader_write(OutputOptionalHeader)
    /\ pc' = "seek_sections"
    /\ UNCHANGED <<file, overflow_checks, header, string_table_start, cursor,
                   sec_i, sym_i, remaining_aux, sym, pos, name, out_exe, err,
                   trace, codecVars>>

\* cursor.set_position(size_of::<CoffHeader>() as u64);
SeekSections ==
    /\ pc = "seek_sections"
    /\ cursor' = WOf(SizeOf(CoffHeaderFields))
    /\ sec_i' = 0
    /\ pc' = "section_loop"
    /\ UNCHANGED <<file, overflow_checks, header, string_table_start,
                   outfile_buf, sym_i, remaining_aux, sym, pos, name, out_exe,
                   err, trace, codecVars>>

\* One iteration of `for _ in 0..header.number_of_sections`.
ReadSection ==
    /\ pc = "section_loop"
    /\ sec_i < header.number_of_sections
    /\ LET r == SectionHeader_read(file, cursor)
       IN  IF r.ok
           THEN /\ cursor' = WAdd(cursor, WOf(40))
                /\ trace' = Append(trace, "section")
                /\ sec_i' = sec_i + 1
                /\ UNCHANGED <<pc, err>>
           ELSE /\ Fail(r.err)
                /\ UNCHANGED <<cursor, trace, sec_i>>
    /\ UNCHANGED <<file, overflow_checks, header, string_table_start,
                   outfile_buf, sym_i, remaining_aux, sym, pos, name, out_exe,
                   codecVars>>

\* cursor.set_position(header.pointer_to_symbol_table.into());
\* let mut remaining_aux = 0;
SeekSymbolTable ==
    /\ pc = "section_loop"
    /\ sec_i >= header.number_of_sections
    /\ cursor' = header.pointer_to_symbol_table
    /\ remaining_aux' = 0
    /\ sym_i' = 0
    /\ pc' = "symbol_loop"
    /\ UNCHANGED <<file, overflow_checks, header, string_table_start,
                   outfile_buf, sec_i, sym, pos, name, out_exe, err, trace,
                   codecVars>>

\* let sym = SymbolTableEntry::read(cursor)?; let pos = cursor.position();
ReadSymbol ==
    /\ pc = "symbol_loop"
    /\ WLt(WOf(sym_i), header.number_of_symbols)
    /\ LET r == SymbolTableEntry_read(file, cursor)
       IN  IF r.ok
           THEN /\ sym' = r.val
                /\ cursor' = WAdd(cursor, WOf(18))
                /\ pos' = WAdd(cursor, WOf(18))
                /\ pc' = "symbol_read"
                /\ err' = err
           ELSE /\ Fail(r.err)
                /\ UNCHANGED <<sym, cursor, pos>>
    /\ UNCHANGED <<file, overflow_checks, header, string_table_start,
                   outfile_buf, sec_i, sym_i, remaining_aux, name, out_exe,
                   trace, codecVars>>

\* A faulty variant: the auxiliary slot's own aux count is taken as the new count.
SkipAux_reload ==
    /\ pc = "symbol_read"
    /\ remaining_aux > 0
    /\ remaining_aux' = sym.number_of_aux_symbols
    /\ trace' = Append(trace, "AUX")
    /\ sym_i' = sym_i + 1
    /\ pc' = "symbol_loop"
    /\ UNCHANGED <<file, overflow_checks, header, string_table_start,
                   outfile_buf, cursor, sec_i, sym, pos, name, out_exe, err,
                   codecVars>>

\* if remaining_aux > 0 { remaining_aux -= 1; eprintln!(AUX ...); continue; }
\* The Debug output of the slot's name never fails: a bad name is printed
\* as an error value.
SkipAux ==
    /\ pc = "symbol_read"
    /\ remaining_aux > 0
    /\ remaining_aux' = remaining_aux - 1
    /\ trace' = Append(trace, "AUX")
    /\ sym_i' = sym_i + 1
    /\ pc' = "symbol_loop"
    /\ UNCHANGED <<file, overflow_checks, header, string_table_start,
                   outfile_buf, cursor, sec_i, sym, pos, name, out_exe, err,
                   codecVars>>

\* remaining_aux = sym.number_of_aux_symbols; match sym.name.repr()? { ... }
\* up to cursor.set_position((string_table_start + offset).into()).
ResolveName ==
    /\ pc = "symbol_read"
    /\ remaining_aux = 0
    /\ remaining_aux' = sym.number_of_aux_symbols
    /\ LET r == repr(sym.name)
       IN  IF ~r.ok
           THEN /\ Fail(r.err)
                /\ UNCHANGED <<cursor, name>>
           ELSE IF r.val.tag = "Short"
           THEN /\ name' = r.val.name
                /\ pc' = "symbol_print"
                /\ UNCHANGED <<cursor, err>>
           ELSE LET p == LongNamePosition(string_table_start, r.val.offset,
                                          overflow_checks)
                IN  IF p.ok
                    THEN /\ cursor' = p.val
                         /\ pc' = "long_name"
                         /\ UNCHANGED <<name, err>>
                    ELSE /\ pc' = "panicked"
                         /\ UNCHANGED <<cursor, name, err>>
    /\ UNCHANGED <<file, overflow_checks, header, string_table_start,
                   outfile_buf, sec_i, sym_i, sym, pos, out_exe, trace,
                   codecVars>>

\* let name = binrw::NullString::read(cursor)?; String::from_utf8(name.0)...?
ReadLongName ==
    /\ pc = "long_name"
    /\ LET r == NullString_read(file, cursor)
       IN  IF ~r.ok
           THEN /\ Fail(r.err)
                /\ UNCHANGED <<cursor, name>>
           ELSE /\ cursor' = r.val.next
                /\ IF Utf8Valid(r.val.name)
                   THEN /\ name' = r.val.name
                        /\ pc' = "symbol_print"
                        /\ err' = err
                   ELSE /\ Fail("invalid symbol long string")
                        /\ name' = name
    /\ UNCHANGED <<file, overflow_checks, header, string_table_start,
                   outfile_buf, sec_i, sym_i, remaining_aux, sym, pos, out_exe,
                   trace, codecVars>>

\* A faulty variant: the cursor is not put back after the name was resolved.
PrintSymbol_no_restore ==
    /\ pc = "symbol_print"
    /\ trace' = Append(trace, "sym")
    /\ sym_i' = sym_i + 1
    /\ pc' = "symbol_loop"
    /\ UNCHANGED <<file, overflow_checks, header, string_table_start,
                   outfile_buf, cursor, sec_i, remaining_aux, sym, pos, name,
                   out_exe, err, codecVars>>

\* eprintln!("sym: ..."); cursor.set_position(pos);
PrintSymbol ==
    /\ pc = "symbol_print"
    /\ trace' = Append(trace, "sym")
    /\ cursor' = pos
    /\ sym_i' = sym_i + 1
    /\ pc' = "symbol_loop"
    /\ UNCHANGED <<file, overflow_checks, header, string_table_start,
                   outfile_buf, sec_i, remaining_aux, sym, pos, name, out_exe,
                   err, codecVars>>

\* std::fs::write("out.exe", outfile_buf)?; Ok(())
WriteOutput ==
    /\ pc = "symbol_loop"
    /\ ~WLt(WOf(sym_i), header.number_of_symbols)
    /\ out_exe' = [written |-> TRUE, data |-> outfile_buf]
    /\ pc' = "done"
    /\ UNCHANGED <<file, overflow_checks, header, string_table_start,
                   outfile_buf, cursor, sec_i, sym_i, remaining_aux, sym, pos,
                   name, err, trace, codecVars>>

Next ==
    \/ ReadHeader
    \/ ComputeStringTableStart
    \/ CheckMachine
    \/ CheckOptionalHeader
    \/ WriteStub
    \/ WriteCoffHeader
    \/ WriteOptionalHeader
    \/ SeekSections
    \/ ReadSection
    \/ SeekSymbolTable
    \/ ReadSymbol
    \/ SkipAux
    \/ ResolveName
    \/ ReadLongName
    \/ PrintSymbol
    \/ WriteOutput

Spec == Init /\ [][Next]_vars

\* ------------------------------------------------------------------------
\* The codecs on their own: one call, or an encode followed by a decode
\* ------------------------------------------------------------------------

\* Names to encode: the strings over "a" and "." of up to MaxNameLen bytes.
NameStrings == UNION { [1..n -> {97, 46}] : n \in 0..MaxNameLen }

\* Raw 8-byte name fields: a 4-byte prefix and any 4 bytes of a sample that
\* holds zero, ASCII, continuation, lead and invalid bytes.
NameFields ==
    { prefix \o suffix :
        prefix \in { <<0, 0, 0, 0>>, <<0, 0, 0, 1>>, <<1, 0, 0, 0>>,
                     <<109, 97, 105, 110>>, <<0, 255, 0, 0>> },
        suffix \in [1..4 -> {0, 1, 110, 169, 195, 255}] }

U32Samples ==
    { WOf(0), WOf(20), [hi |-> 1, lo |-> 0], [hi |-> 32768, lo |-> 0], U32Max }

HeaderValues ==
    [machine                 : {IMAGE_FILE_MACHINE_AMD64, 332, 65535},
     number_of_sections      : {0, 65535},
     time_date_stamp         : {WOf(0), U32Max},
     pointer_to_symbol_table : U32Samples,
     number_of_symbols       : U32Samples,
     size_of_optional_header : {0, 240},
     characteristics         : { {}, IMAGE_FILE_EXECUTABLE_IMAGE, {6}, {15},
                                 0..15 }]

InitCodec ==
    /\ \/ \E v \in NameStrings : arg = [kind |-> "str", val |-> v]
       \/ \E v \in NameFields : arg = [kind |-> "field", val |-> v]
       \/ \E v \in HeaderValues : arg = [kind |-> "header", val |-> v]
    /\ ret = Err("none")
    /\ op = "idle"
    /\ file = <<>>
    /\ overflow_checks = FALSE
    /\ pc = "idle"
    /\ ProcLocals

\* encode_section_header_name(name)
EncodeName ==
    /\ op = "idle"
    /\ arg.kind = "str"
    /\ ret' = encode_section_header_name(arg.val)
    /\ op' = "encoded"
    /\ UNCHANGED <<arg, procVars>>

\* parse_section_header_name on the field just encoded
ParseEncoded ==
    /\ op = "encoded"
    /\ ret.ok
    /\ ret' = parse_section_header_name(ret.val)
    /\ op' = "reparsed"
    /\ UNCHANGED <<arg, procVars>>

\* parse_section_header_name(field)
ParseName ==
    /\ op = "idle"
    /\ arg.kind = "field"
    /\ ret' = parse_section_header_name(arg.val)
    /\ op' = "parsed"
    /\ UNCHANGED <<arg, procVars>>

\* SymbolName { bytes: field }.repr()
ReprName ==
    /\ op = "idle"
    /\ arg.kind = "field"
    /\ ret' = repr(arg.val)
    /\ op' = "repr"
    /\ UNCHANGED <<arg, procVars>>

\* header.write(...)
WriteHeader ==
    /\ op = "idle"
    /\ arg.kind = "header"
    /\ ret' = Ok(CoffHeader_write(arg.val))
    /\ op' = "written"
    /\ UNCHANGED <<arg, procVars>>

\* CoffHeader::read on the bytes just written
ReadWritten ==
    /\ op = "written"
    /\ LET r == ReadExact(ret.val, WOf(0), 20)
       IN  ret' = IF r.ok THEN Ok(CoffHeader_read(r.val)) ELSE r
    /\ op' = "read"
    /\ UNCHANGED <<arg, procVars>>

NextCodec ==
    \/ EncodeName
    \/ ParseEncoded
    \/ ParseName
    \/ ReprName
    \/ WriteHeader
    \/ ReadWritten

SpecCodec == InitCodec /\ [][NextCodec]_vars

\* ------------------------------------------------------------------------
\* Properties
\* ------------------------------------------------------------------------

\* The longest prefix of a field that holds no zero byte.
BeforeFirstZero(f) ==
    LET k == CHOOSE n \in 0..Len(f) :
                 /\ \A i \in 1..n : f[i] # 0
                 /\ n = Len(f) \/ f[n + 1] = 0
    IN  SubSeq(f, 1, k)

\* C1: parse_section_header_name returns the text of the bytes before the
\* first zero byte of the field, all 8 bytes when there is none; so a name of
\* exactly 8 bytes written by encode_section_header_name decodes to itself.
C1_NameIsBytesBeforeFirstZero ==
    /\ (op = "parsed" /\ Utf8Valid(BeforeFirstZero(arg.val)))
           => (ret.ok /\ ret.val = BeforeFirstZero(arg.val))
    /\ (op = "reparsed" /\ Len(arg.val) = 8)
           => (ret.ok /\ ret.val = arg.val)

\* C2: a symbol walk that process_object finishes successfully ends with
\* remaining_aux = 0; a table that ends inside an auxiliary run fails.
C2_WalkEndsWithNoAuxOutstanding ==
    pc = "done" => remaining_aux = 0

\* S + N * 18 without any truncation.
ExactStringTableBase(h) ==
    WAdd(h.pointer_to_symbol_table, WMul(h.number_of_symbols, 18))

\* C3: the string table base is S + N * 18 exactly, and the name of a
\* Long(offset) symbol is read at S + N * 18 + offset.
C3_LongNameReadAtExactPosition ==
    /\ pc \in {"symbol_loop", "symbol_read", "long_name", "symbol_print", "done"}
           => string_table_start = ExactStringTableBase(header)
    /\ pc = "long_name"
           => cursor = WAdd(ExactStringTableBase(header),
                            read_u32(SubSeq(sym.name, 5, 8)))

\* C4: once a header whose machine is not 0x8664 has been decoded,
\* process_object ends only by failing with the unsupported-machine error,
\* and out.exe is not written.
C4_OtherMachineIsRejected ==
    (trace # <<>> /\ header.machine # 34404)
        => /\ ~out_exe.written
           /\ pc \in {"done", "failed", "panicked"}
                  => (pc = "failed" /\ err = "object file is not x86-64")

\* The 20 bytes of the COFF header in an output image.
ImageCoffHeader(image) == SubSeq(image, StubLen + 1, StubLen + 20)

\* C5: in the output image the COFF header's size_of_optional_header is the
\* number of bytes that follow the 20-byte header, its machine is 0x8664,
\* its section and symbol counts are 0 and its characteristics are 0x0002.
C5_OptionalHeaderSizeIsEncodedSize ==
    (pc \in {"seek_sections", "section_loop", "symbol_loop", "symbol_read",
             "long_name", "symbol_print", "done"}
     \/ out_exe.written)
        => LET image == IF out_exe.written THEN out_exe.data ELSE outfile_buf
               h     == ImageCoffHeader(image)
           IN  /\ Len(image) >= StubLen + 20
               /\ LeNat(SubSeq(h, 17, 18)) = Len(image) - StubLen - 20
               /\ LeNat(SubSeq(h, 1, 2)) = 34404
               /\ LeNat(SubSeq(h, 3, 4)) = 0
               /\ SubSeq(h, 13, 16) = <<0, 0, 0, 0>>
               /\ LeNat(SubSeq(h, 19, 20)) = 2

\* C5 witness: out.exe was written with the stub, the 20-byte header and a
\* 240-byte optional header (magic, fixed fields, 16 data directories).
C5_Witness ==
    /\ pc = "done"
    /\ out_exe.written
    /\ Len(out_exe.data) = StubLen + 20 + 240
    /\ LeNat(SubSeq(ImageCoffHeader(out_exe.data), 17, 18)) = 240

\* C6: the optional header of the output image carries size_of_stack_reserve
\* = 1048576 and size_of_stack_commit = 4096 (the u64 fields at offsets 72
\* and 80 of a PE32+ optional header).
C6_StackReserveAndCommit ==
    out_exe.written
        => LET opt == SubSeq(out_exe.data, StubLen + 21, Len(out_exe.data))
           IN  /\ SubSeq(opt, 73, 80) = LeBytes(1048576, 8)
               /\ SubSeq(opt, 81, 88) = LeBytes(4096, 8)

\* C7: a CoffHeader is written as 20 bytes, and reading them back gives the
\* same seven field values, the characteristics word bit for bit.
C7_HeaderRoundTrip ==
    /\ op = "written" => Len(ret.val) = 20
    /\ op = "read"
           => /\ ret.ok
              /\ ret.val.machine = arg.val.machine
              /\ ret.val.number_of_sections = arg.val.number_of_sections
              /\ ret.val.time_date_stamp = arg.val.time_date_stamp
              /\ ret.val.pointer_to_symbol_table = arg.val.pointer_to_symbol_table
              /\ ret.val.number_of_symbols = arg.val.number_of_symbols
              /\ ret.val.size_of_optional_header = arg.val.size_of_optional_header
              /\ ret.val.characteristics = arg.val.characteristics

\* C7 witness: a header with the unnamed bit 0x0040 set and a symbol count
\* of 2^32 - 1 has been written and read back.
C7_Witness ==
    /\ op = "read"
    /\ arg.val.characteristics = {6}
    /\ arg.val.number_of_symbols = U32Max
    /\ ret.val.characteristics = {6}

\* C8: repr on [0,0,0,0,x,y,z,w] is Long(x + 256 y + 65536 z + 16777216 w),
\* and repr on a field whose first 4 bytes are not all zero is never Long.
C8_LongIffZeroPrefix ==
    op = "repr"
        => LET b == arg.val
           IN  IF b[1] = 0 /\ b[2] = 0 /\ b[3] = 0 /\ b[4] = 0
               THEN /\ ret.ok
                    /\ ret.val.tag = "Long"
                    /\ ret.val.offset = [hi |-> b[7] + 256 * b[8],
                                         lo |-> b[5] + 256 * b[6]]
               ELSE ~(ret.ok /\ ret.val.tag = "Long")

\* C8 witness: repr was applied to [0,0,0,0,1,0,0,255] and gave
\* Long(1 + 255 * 2^24).
C8_Witness ==
    /\ op = "repr"
    /\ arg.val = <<0, 0, 0, 0, 1, 0, 0, 255>>
    /\ ret.ok
    /\ ret.val.tag = "Long"
    /\ ret.val.offset = [hi |-> 65280, lo |-> 1]

\* C9: at the start of iteration k of the symbol walk the cursor is at
\* pointer_to_symbol_table + 18 k, and a walk that ends without error ran
\* number_of_symbols iterations.
C9_CursorAdvancesBy18 ==
    /\ pc = "symbol_loop"
           => cursor = WAdd(header.pointer_to_symbol_table, WOf(18 * sym_i))
    /\ pc = "done" => WOf(sym_i) = header.number_of_symbols

\* C9 witness: a walk of three slots is over, made of a short-name symbol, a
\* long-name symbol read from the string table and an auxiliary slot.
C9_Witness ==
    /\ pc = "done"
    /\ sym_i = 3
    /\ trace = <<"header", "sym", "sym", "AUX">>
    /\ name = <<97, 98>>
    /\ cursor = WAdd(header.pointer_to_symbol_table, WOf(54))

\* C10: a slot consumed while remaining_aux > 0 only lowers remaining_aux by
\* one: the walk goes on to the next slot with no error, and the cursor and
\* the resolved name are left alone.
C10_AuxSlotIsOpaque ==
    [][(pc = "symbol_read" /\ remaining_aux > 0)
           => /\ remaining_aux' = remaining_aux - 1
              /\ pc' = "symbol_loop"
              /\ err' = "none"
              /\ cursor' = cursor
              /\ name' = name]_vars

\* C10 witness: after a symbol with two auxiliary records, a slot whose name
\* is a zero-prefixed field with an out-of-range offset and whose own aux
\* count is 2 was consumed as auxiliary; one auxiliary record remains.
C10_Witness ==
    /\ pc = "symbol_loop"
    /\ err = "none"
    /\ trace # <<>>
    /\ trace[Len(trace)] = "AUX"
    /\ sym.name = NameLongFar
    /\ sym.number_of_aux_symbols = 2
    /\ remaining_aux = 1

====
